---- MODULE Spec2Model ----
(***************************************************************************)
(* Model of src/src/App.tsx: the gas-label parser formatGasType, the       *)
(* cylinderData catalog built from it, and the App component's state with  *)
(* its calculateUsage handler.                                             *)
(*                                                                         *)
(* Strings are sequences of one-character strings, so that includes,       *)
(* split, replace, trim, the regular expression and parseInt are computed  *)
(* character by character.  JavaScript numbers are IEEE-754 binary64       *)
(* values; they are modelled exactly, as sign * man * 2^exp with man an    *)
(* arbitrary-precision natural number of at most 53 significant bits.      *)
(***************************************************************************)
EXTENDS Integers, Sequences, FiniteSets, TLC

(***************************************************************************)
(* Arbitrary-precision naturals: little-endian sequences of limbs in       *)
(* 0..Base-1 without leading (most significant) zero limbs; zero is <<>>.  *)
(* They carry the 53-bit significands of binary64 numbers, which exceed    *)
(* the integers TLC computes with.                                         *)
(***************************************************************************)
LimbBits == 7 + 7
Base == 2^LimbBits

RECURSIVE BigNorm(_)
BigNorm(a) ==
  IF a = <<>> THEN a
  ELSE IF a[Len(a)] = 0 THEN BigNorm(SubSeq(a, 1, Len(a) - 1)) ELSE a

RECURSIVE BigFromInt(_)
BigFromInt(n) ==
  IF n = 0 THEN <<>> ELSE <<n % Base>> \o BigFromInt(n \div Base)

RECURSIVE BigAddC(_, _, _)
BigAddC(a, b, c) ==
  IF a = <<>> /\ b = <<>> THEN (IF c = 0 THEN <<>> ELSE <<c>>)
  ELSE LET x == IF a = <<>> THEN 0 ELSE a[1]
           y == IF b = <<>> THEN 0 ELSE b[1]
           s == x + y + c
       IN  <<s % Base>> \o BigAddC(IF a = <<>> THEN a ELSE Tail(a),
                                   IF b = <<>> THEN b ELSE Tail(b),
                                   s \div Base)

BigAdd(a, b) == BigAddC(a, b, 0)

\* a - b for a >= b
RECURSIVE BigSubB(_, _, _)
BigSubB(a, b, c) ==
  IF a = <<>> THEN <<>>
  ELSE LET y == IF b = <<>> THEN 0 ELSE b[1]
           d == a[1] - y - c
       IN  <<IF d < 0 THEN d + Base ELSE d>>
             \o BigSubB(Tail(a), IF b = <<>> THEN b ELSE Tail(b),
                        IF d < 0 THEN 1 ELSE 0)

BigSub(a, b) == BigNorm(BigSubB(a, b, 0))

\* a * k + c for 0 <= k < Base
RECURSIVE BigMulSmall(_, _, _)
BigMulSmall(a, k, c) ==
  IF a = <<>> THEN (IF c = 0 THEN <<>> ELSE <<c>>)
  ELSE LET s == a[1] * k + c
       IN  <<s % Base>> \o BigMulSmall(Tail(a), k, s \div Base)

RECURSIVE BigMul(_, _)
BigMul(a, b) ==
  IF a = <<>> \/ b = <<>> THEN <<>>
  ELSE BigNorm(BigAdd(BigMulSmall(a, b[1], 0), <<0>> \o BigMul(a, Tail(b))))

\* -1, 0, 1 as a < b, a = b, a > b
RECURSIVE BigCmp(_, _)
BigCmp(a, b) ==
  IF Len(a) # Len(b) THEN (IF Len(a) < Len(b) THEN -1 ELSE 1)
  ELSE IF a = <<>> THEN 0
  ELSE LET n == Len(a)
       IN  IF a[n] # b[n] THEN (IF a[n] < b[n] THEN -1 ELSE 1)
           ELSE BigCmp(BigNorm(SubSeq(a, 1, n - 1)), BigNorm(SubSeq(b, 1, n - 1)))

\* quotient and remainder of a by 0 < d < Base
RECURSIVE BigDivSmall(_, _)
BigDivSmall(a, d) ==
  IF a = <<>> THEN [q |-> <<>>, r |-> 0]
  ELSE LET hi  == BigDivSmall(Tail(a), d)
           cur == hi.r * Base + a[1]
       IN  [q |-> BigNorm(<<cur \div d>> \o hi.q), r |-> cur % d]

Zeros(n) == [i \in 1..n |-> 0]

\* a * 2^k
BigShl(a, k) ==
  IF a = <<>> THEN a
  ELSE Zeros(k \div LimbBits) \o BigMulSmall(a, 2^(k % LimbBits), 0)

\* floor(a / 2^k)
BigShr(a, k) ==
  LET q == k \div LimbBits
  IN  IF q >= Len(a) THEN <<>>
      ELSE BigDivSmall(SubSeq(a, q + 1, Len(a)), 2^(k % LimbBits)).q

RECURSIVE IntBits(_)
IntBits(n) == IF n = 0 THEN 0 ELSE 1 + IntBits(n \div 2)

BitLen(a) ==
  IF a = <<>> THEN 0 ELSE LimbBits * (Len(a) - 1) + IntBits(a[Len(a)])

BigOdd(a) == a # <<>> /\ a[1] % 2 = 1

(***************************************************************************)
(* JavaScript Numbers (IEEE-754 binary64).  A finite number is             *)
(* (-1)^sign * man * 2^exp, kept canonical: man is odd, or zero with       *)
(* exp = 0.  Every arithmetic result is rounded to 53 significant bits,    *)
(* ties to even.  Exponent overflow and subnormals lie far outside the     *)
(* magnitudes an input of a few digits can produce and are not modelled.   *)
(***************************************************************************)
NaN == [nan |-> TRUE, sign |-> 0, man |-> <<>>, exp |-> 0]

RECURSIVE TrailingZeros(_)
TrailingZeros(n) == IF n % 2 = 1 THEN 0 ELSE 1 + TrailingZeros(n \div 2)

RECURSIVE Canon(_, _, _)
Canon(s, m, e) ==
  IF m = <<>> THEN [nan |-> FALSE, sign |-> s, man |-> <<>>, exp |-> 0]
  ELSE IF m[1] = 0 THEN Canon(s, Tail(m), e + LimbBits)
  ELSE LET t == TrailingZeros(m[1])
       IN  [nan |-> FALSE, sign |-> s, man |-> BigShr(m, t), exp |-> e + t]

\* the binary64 nearest to (-1)^s * m * 2^e, ties to even
Round53(s, m, e) ==
  LET bl == BitLen(m)
  IN  IF bl <= 53 THEN Canon(s, m, e)
      ELSE LET sh   == bl - 53
               q    == BigShr(m, sh)
               rem  == BigSub(m, BigShl(q, sh))
               half == BigShl(<<1>>, sh - 1)
               c    == BigCmp(rem, half)
               up   == c > 0 \/ (c = 0 /\ BigOdd(q))
           IN  Canon(s, IF up THEN BigAdd(q, <<1>>) ELSE q, e + sh)

\* the Number of an integer
FromInt(n) == Canon(IF n < 0 THEN 1 ELSE 0, BigFromInt(IF n < 0 THEN -n ELSE n), 0)

\* the Number denoted by the decimal num / den (num a natural, 0 < den < Base):
\* the quotient is taken with 70 extra bits and a sticky bit, then rounded once
FromDecimal(s, num, den) ==
  LET d == BigDivSmall(BigShl(num, 70), den)
      m == BigAdd(BigShl(d.q, 1), IF d.r = 0 THEN <<>> ELSE <<1>>)
  IN  Round53(s, m, -71)

\* a * b
FMul(a, b) ==
  IF a.nan \/ b.nan THEN NaN
  ELSE Round53((a.sign + b.sign) % 2, BigMul(a.man, b.man), a.exp + b.exp)

\* a + b
FAdd(a, b) ==
  IF a.nan \/ b.nan THEN NaN
  ELSE LET e == IF a.exp < b.exp THEN a.exp ELSE b.exp
           x == BigShl(a.man, a.exp - e)
           y == BigShl(b.man, b.exp - e)
           c == BigCmp(x, y)
       IN  IF a.sign = b.sign THEN Round53(a.sign, BigAdd(x, y), e)
           ELSE IF c = 0 THEN Canon(0, <<>>, 0)
           ELSE IF c > 0 THEN Round53(a.sign, BigSub(x, y), e)
           ELSE Round53(b.sign, BigSub(y, x), e)

(***************************************************************************)
(* Strings: sequences of one-character strings.                            *)
(***************************************************************************)
WhiteSpace == {" ", "\t", "\n", "\r"}
LineTerminator == {"\n", "\r"}

DigitChars == <<"0", "1", "2", "3", "4", "5", "6", "7", "8", "9",
                "a", "b", "c", "d", "e", "f">>
UpperHex == <<"A", "B", "C", "D", "E", "F">>

\* the value of c as a digit, or 99 when c is no digit of any radix up to 16
DigitValue(c) ==
  IF \E i \in 1..16 : DigitChars[i] = c
    THEN (CHOOSE i \in 1..16 : DigitChars[i] = c) - 1
  ELSE IF \E i \in 1..6 : UpperHex[i] = c
    THEN (CHOOSE i \in 1..6 : UpperHex[i] = c) + 9
  ELSE 99

RECURSIVE TrimStart(_)
TrimStart(s) ==
  IF s # <<>> /\ s[1] \in WhiteSpace THEN TrimStart(Tail(s)) ELSE s

RECURSIVE TrimEnd(_)
TrimEnd(s) ==
  IF s # <<>> /\ s[Len(s)] \in WhiteSpace
    THEN TrimEnd(SubSeq(s, 1, Len(s) - 1)) ELSE s

\* a trim that strips leading white space only
TrimLeadingOnly(s) == TrimStart(s)

\* String.prototype.trim
Trim(s) == TrimEnd(TrimStart(s))

\* the longest prefix of s made of digits of the radix
RECURSIVE DigitPrefix(_, _)
DigitPrefix(s, radix) ==
  IF s # <<>> /\ DigitValue(s[1]) < radix
    THEN <<s[1]>> \o DigitPrefix(Tail(s), radix) ELSE <<>>

\* the natural number a digit string denotes, continuing from acc
RECURSIVE DigitsValue(_, _, _)
DigitsValue(s, radix, acc) ==
  IF s = <<>> THEN acc
  ELSE DigitsValue(Tail(s), radix, BigMulSmall(acc, radix, DigitValue(s[1])))

\* the decimal digits of a natural number ("" for zero)
RECURSIVE DecDigits(_)
DecDigits(n) ==
  IF n = <<>> THEN <<>>
  ELSE LET d == BigDivSmall(n, 10) IN DecDigits(d.q) \o <<DigitChars[d.r + 1]>>

\* parseInt(str) with no radix argument: leading white space, a sign, a 0x
\* prefix, then the longest run of digits; NaN when that run is empty
parseInt(str) ==
  LET t   == TrimStart(str)
      neg == t # <<>> /\ t[1] = "-"
      u   == IF t # <<>> /\ t[1] \in {"+", "-"} THEN Tail(t) ELSE t
      hex == Len(u) >= 2 /\ u[1] = "0" /\ u[2] \in {"x", "X"}
      R   == IF hex THEN 16 ELSE 10
      v   == IF hex THEN SubSeq(u, 3, Len(u)) ELSE u
      z   == DigitPrefix(v, R)
  IN  IF z = <<>> THEN NaN
      ELSE Round53(IF neg THEN 1 ELSE 0, DigitsValue(z, R, <<>>), 0)

isNaN(x) == x.nan

\* Number.prototype.toFixed(fractionDigits) for |x| < 10^21: n is the integer
\* for which n / 10^f - |x| is closest to zero, the larger n of two such
toFixed(x, f) ==
  IF x.nan THEN <<"N", "a", "N">>
  ELSE LET scaled == BigMul(x.man, BigFromInt(10^f))
           n == IF x.exp >= 0 THEN BigShl(scaled, x.exp)
                ELSE BigShr(BigAdd(BigShl(scaled, 1), BigShl(<<1>>, -x.exp)),
                            1 - x.exp)
           m == IF n = <<>> THEN <<"0">> ELSE DecDigits(n)
           k == Len(m)
           padded == IF k <= f THEN [i \in 1..(f + 1 - k) |-> "0"] \o m ELSE m
           kk == Len(padded)
           a == SubSeq(padded, 1, kk - f)
           b == SubSeq(padded, kk - f + 1, kk)
           s == IF x.sign = 1 /\ x.man # <<>> THEN <<"-">> ELSE <<>>
       IN  s \o (IF f = 0 THEN padded ELSE a \o <<".">> \o b)

\* parseFloat(str) for a sign, digits and an optional fraction of at most four
\* digits (no exponent part, no Infinity): the Number nearest to the decimal
parseFloat(str) ==
  LET t    == TrimStart(str)
      neg  == t # <<>> /\ t[1] = "-"
      u    == IF t # <<>> /\ t[1] \in {"+", "-"} THEN Tail(t) ELSE t
      ip   == DigitPrefix(u, 10)
      rest == SubSeq(u, Len(ip) + 1, Len(u))
      fp   == IF rest # <<>> /\ rest[1] = "."
                THEN DigitPrefix(Tail(rest), 10) ELSE <<>>
  IN  IF ip = <<>> /\ fp = <<>> THEN NaN
      ELSE FromDecimal(IF neg THEN 1 ELSE 0, DigitsValue(ip \o fp, 10, <<>>),
                       10^Len(fp))

(***************************************************************************)
(* formatGasType and the string operations it uses.                        *)
(***************************************************************************)
\* the first index at which sub occurs in s from position i on, or 0
RECURSIVE IndexFrom(_, _, _)
IndexFrom(s, sub, i) ==
  IF i + Len(sub) - 1 > Len(s) THEN 0
  ELSE IF SubSeq(s, i, i + Len(sub) - 1) = sub THEN i
  ELSE IndexFrom(s, sub, i + 1)

\* String.prototype.includes
includes(s, sub) == IndexFrom(s, sub, 1) # 0

\* String.prototype.split with a non-empty separator: every piece
RECURSIVE split(_, _)
split(s, sep) ==
  LET i == IndexFrom(s, sep, 1)
  IN  IF i = 0 THEN <<s>>
      ELSE <<SubSeq(s, 1, i - 1)>> \o split(SubSeq(s, i + Len(sep), Len(s)), sep)

\* replace(/[()]/g, '')
RECURSIVE RemoveParens(_)
RemoveParens(s) ==
  IF s = <<>> THEN <<>>
  ELSE (IF s[1] \in {"(", ")"} THEN <<>> ELSE <<s[1]>>) \o RemoveParens(Tail(s))

\* .map(s => s.trim())
MapTrim(pieces) == [i \in 1..Len(pieces) |-> Trim(pieces[i])]

\* gasType.match(/(.*?)\s*\((.*?)\)/): the leftmost match in backtracking order.
\* Close: the index of the first ")" at or after i that no line terminator precedes
RECURSIVE Close(_, _)
Close(s, i) ==
  IF i > Len(s) THEN 0
  ELSE IF s[i] = ")" THEN i
  ELSE IF s[i] \in LineTerminator THEN 0
  ELSE Close(s, i + 1)

\* the number of white-space characters from index i on
RECURSIVE WsRun(_, _)
WsRun(s, i) ==
  IF i <= Len(s) /\ s[i] \in WhiteSpace THEN 1 + WsRun(s, i + 1) ELSE 0

NoMatch == [ok |-> FALSE, g1 |-> <<>>, g2 |-> <<>>]

\* \s* took w characters after a first group of k1 characters begun at p
RECURSIVE TryWs(_, _, _, _)
TryWs(s, p, k1, w) ==
  LET q == p + k1 + w
  IN  IF q <= Len(s) /\ s[q] = "(" /\ Close(s, q + 1) # 0
        THEN [ok |-> TRUE, g1 |-> SubSeq(s, p, p + k1 - 1),
              g2 |-> SubSeq(s, q + 1, Close(s, q + 1) - 1)]
      ELSE IF w > 0 THEN TryWs(s, p, k1, w - 1)
      ELSE NoMatch

\* the lazy first group grows from k1 characters
RECURSIVE TryGroup1(_, _, _)
TryGroup1(s, p, k1) ==
  LET m == TryWs(s, p, k1, WsRun(s, p + k1))
  IN  IF m.ok THEN m
      ELSE IF p + k1 <= Len(s) /\ s[p + k1] \notin LineTerminator
        THEN TryGroup1(s, p, k1 + 1)
      ELSE NoMatch

RECURSIVE MatchFrom(_, _)
MatchFrom(s, p) ==
  IF p > Len(s) + 1 THEN NoMatch
  ELSE LET m == TryGroup1(s, p, 0)
       IN  IF m.ok THEN m ELSE MatchFrom(s, p + 1)

match(s) == MatchFrom(s, 1)

In1 == <<" ", "i", "n", " ", "1">>
In1Sp == <<" ", "i", "n", " ", "1", " ">>
GasMixture == <<"-", "i", "n", "-", "1", " ", "G", "a", "s", " ",
                "M", "i", "x", "t", "u", "r", "e">>

\* threw: rest is undefined and rest.replace raises a TypeError
TypeError == [threw |-> TRUE, displayName |-> <<>>, components |-> <<>>]

Formatted(d, c) == [threw |-> FALSE, displayName |-> d, components |-> c]

formatGasType(gasType) ==
  IF includes(gasType, In1)
    THEN LET pieces == split(gasType, In1Sp)
             count  == pieces[1]
         IN  IF Len(pieces) < 2 THEN TypeError
             ELSE Formatted(count \o GasMixture,
                            MapTrim(split(RemoveParens(pieces[2]), <<",">>)))
  ELSE LET m == match(gasType)
       IN  IF m.ok THEN Formatted(Trim(m.g1), <<Trim(m.g2)>>)
           ELSE Formatted(gasType, <<gasType>>)

(***************************************************************************)
(* cylinderData                                                            *)
(***************************************************************************)
\* a numeric literal of the source, num / den in decimal
Lit(num, den) == FromDecimal(0, BigFromInt(num), den)

\* "3 in 1 (O2,LEL,CO)"
Mix3CO ==
  <<"3", " ", "i", "n", " ", "1", " ", "(", "O", "2", ",", "L", "E", "L", ",", "C", "O", ")">>

\* "3 in 1 (O2,LEL,H2S)"
Mix3H2S ==
  <<"3", " ", "i", "n", " ", "1", " ", "(", "O", "2", ",", "L", "E", "L", ",", "H", "2", "S", ")">>

\* "4 in 1 (O2,LEL,CO,H2S)"
Mix4H2S ==
  <<"4", " ", "i", "n", " ", "1", " ", "(", "O", "2", ",", "L", "E", "L", ",", "C", "O", ",", "H", "2", "S", ")">>

\* "4 in 1 (O2,LEL,CO,CO2)"
Mix4CO2 ==
  <<"4", " ", "i", "n", " ", "1", " ", "(", "O", "2", ",", "L", "E", "L", ",", "C", "O", ",", "C", "O", "2", ")">>

\* "5 in 1 (O2,LEL,CO,H2S,CO2)"
Mix5CO2 ==
  <<"5", " ", "i", "n", " ", "1", " ", "(", "O", "2", ",", "L", "E", "L", ",", "C", "O", ",", "H", "2", "S", ",", "C", "O", "2", ")">>

\* "5 in 1 (O2,LEL,CO,H2S,SO2)"
Mix5SO2 ==
  <<"5", " ", "i", "n", " ", "1", " ", "(", "O", "2", ",", "L", "E", "L", ",", "C", "O", ",", "H", "2", "S", ",", "S", "O", "2", ")">>

\* "Ammonia (NH3)"
Ammonia ==
  <<"A", "m", "m", "o", "n", "i", "a", " ", "(", "N", "H", "3", ")">>

\* "Carbon Dioxide (CO2)"
CarbonDioxide ==
  <<"C", "a", "r", "b", "o", "n", " ", "D", "i", "o", "x", "i", "d", "e", " ", "(", "C", "O", "2", ")">>

\* "Carbon Monoxide (CO)"
CarbonMonoxide ==
  <<"C", "a", "r", "b", "o", "n", " ", "M", "o", "n", "o", "x", "i", "d", "e", " ", "(", "C", "O", ")">>

\* "Chlorine (Cl2)"
Chlorine ==
  <<"C", "h", "l", "o", "r", "i", "n", "e", " ", "(", "C", "l", "2", ")">>

\* the bump and calibration times attached the wrong way round
CylinderRecordSwapped(label, bump, cal, flow) ==
  LET f == formatGasType(label)
  IN  [gasType |-> label, displayName |-> f.displayName,
       components |-> f.components,
       bumpTimeMin |-> cal, calTimeMin |-> bump, flowRate |-> flow]

CylinderRecord(label, bump, cal, flow) ==
  LET f == formatGasType(label)
  IN  [gasType |-> label, displayName |-> f.displayName,
       components |-> f.components,
       bumpTimeMin |-> bump, calTimeMin |-> cal, flowRate |-> flow]

Catalog ==
  <<
    CylinderRecord(Mix3CO, Lit(5, 10), Lit(2, 1), Lit(5, 10)),
    CylinderRecord(Mix3H2S, Lit(5, 10), Lit(2, 1), Lit(5, 10)),
    CylinderRecord(Mix4H2S, Lit(4, 10), Lit(15, 10), Lit(5, 10)),
    CylinderRecord(Mix4CO2, Lit(5, 10), Lit(215, 100), Lit(5, 10)),
    CylinderRecord(Mix5CO2, Lit(5, 10), Lit(215, 100), Lit(5, 10)),
    CylinderRecord(Mix5SO2, Lit(75, 100), Lit(25, 10), Lit(5, 10)),
    CylinderRecord(Ammonia, Lit(1, 1), Lit(3, 1), Lit(5, 10)),
    CylinderRecord(CarbonDioxide, Lit(5, 10), Lit(15, 10), Lit(5, 10)),
    CylinderRecord(CarbonMonoxide, Lit(4, 10), Lit(15, 10), Lit(5, 10)),
    CylinderRecord(Chlorine, Lit(3, 1), Lit(6, 1), Lit(5, 10))
  >>

(***************************************************************************)
(* The App component.  State: the catalog, the six useState slots, and     *)
(* the last event the component handled.  result is <<>> for null and      *)
(* <<x>> for the Number x.  The error messages are kept as whole strings:  *)
(* the code only assigns them and tests them for emptiness.                *)
(***************************************************************************)
VARIABLES cylinderData, selectedGas, testsPerMonth, calibrationsPerMonth,
          instruments, result, error, lastEvent,
          label, formatted, shape, recorded

appVars == <<cylinderData, selectedGas, testsPerMonth, calibrationsPerMonth,
             instruments, result, error, lastEvent>>
formatVars == <<label, formatted, shape>>
vars == <<appVars, formatVars, recorded>>

Null == <<>>

MissingField == "Please fill in all fields"
UnknownGasType == "Invalid gas type selected"
InvalidNumber == "Please enter valid numbers"

\* cylinderData.find(c => c.gasType === gas): the index of the first such
\* record, 0 for undefined
find(catalog, gas) ==
  LET hits == {i \in 1..Len(catalog) : catalog[i].gasType = gas}
  IN  IF hits = {} THEN 0 ELSE CHOOSE i \in hits : \A j \in hits : i <= j

\* the instrument count applied to the calibration term only
totalUsageMisplaced(cylinder, tests, calibrations, instrumentCount) ==
  FAdd(FMul(FMul(cylinder.bumpTimeMin, tests), cylinder.flowRate),
       FMul(FMul(FMul(cylinder.calTimeMin, calibrations), cylinder.flowRate),
            instrumentCount))

totalUsage(cylinder, tests, calibrations, instrumentCount) ==
  FMul(FAdd(FMul(FMul(cylinder.bumpTimeMin, tests), cylinder.flowRate),
            FMul(FMul(cylinder.calTimeMin, calibrations), cylinder.flowRate)),
       instrumentCount)

\* the numbers validated before the gas type is looked up
OutcomeNumbersFirst(catalog, gas, testsText, calsText, instrText, oldResult) ==
  IF gas = <<>> \/ testsText = <<>> \/ calsText = <<>> \/ instrText = <<>>
    THEN [error |-> MissingField, result |-> oldResult]
  ELSE LET tests == parseInt(testsText)
           calibrations == parseInt(calsText)
           instrumentCount == parseInt(instrText)
           c == find(catalog, gas)
       IN  IF isNaN(tests) \/ isNaN(calibrations) \/ isNaN(instrumentCount)
             THEN [error |-> InvalidNumber, result |-> oldResult]
           ELSE IF c = 0 THEN [error |-> UnknownGasType, result |-> oldResult]
           ELSE [error |-> "",
                 result |-> <<parseFloat(toFixed(
                    totalUsage(catalog[c], tests, calibrations,
                               instrumentCount), 2))>>]

\* a handler that also resets the result slot when validation fails
OutcomeClearing(catalog, gas, testsText, calsText, instrText, oldResult) ==
  IF gas = <<>> \/ testsText = <<>> \/ calsText = <<>> \/ instrText = <<>>
    THEN [error |-> MissingField, result |-> Null]
  ELSE LET c == find(catalog, gas)
       IN  IF c = 0 THEN [error |-> UnknownGasType, result |-> Null]
           ELSE LET tests == parseInt(testsText)
                    calibrations == parseInt(calsText)
                    instrumentCount == parseInt(instrText)
                IN  IF isNaN(tests) \/ isNaN(calibrations) \/ isNaN(instrumentCount)
                      THEN [error |-> InvalidNumber, result |-> Null]
                    ELSE [error |-> "",
                          result |-> <<parseFloat(toFixed(
                             totalUsage(catalog[c], tests, calibrations,
                                        instrumentCount), 2))>>]

\* what one run of calculateUsage leaves in the error and result slots, given
\* the slots' values in the render the handler closed over
Outcome(catalog, gas, testsText, calsText, instrText, oldResult) ==
  IF gas = <<>> \/ testsText = <<>> \/ calsText = <<>> \/ instrText = <<>>
    THEN [error |-> MissingField, result |-> oldResult]
  ELSE LET c == find(catalog, gas)
       IN  IF c = 0 THEN [error |-> UnknownGasType, result |-> oldResult]
           ELSE LET tests == parseInt(testsText)
                    calibrations == parseInt(calsText)
                    instrumentCount == parseInt(instrText)
                IN  IF isNaN(tests) \/ isNaN(calibrations) \/ isNaN(instrumentCount)
                      THEN [error |-> InvalidNumber, result |-> oldResult]
                    ELSE [error |-> "",
                          result |-> <<parseFloat(toFixed(
                             totalUsage(catalog[c], tests, calibrations,
                                        instrumentCount), 2))>>]

calculateUsage ==
  LET o == Outcome(cylinderData, selectedGas, testsPerMonth,
                   calibrationsPerMonth, instruments, result)
  IN  /\ error' = o.error
      /\ result' = o.result
      /\ lastEvent' = "click"
      /\ UNCHANGED <<cylinderData, selectedGas, testsPerMonth,
                     calibrationsPerMonth, instruments>>

setSelectedGas(v) ==
  /\ selectedGas' = v
  /\ lastEvent' = "change"
  /\ UNCHANGED <<cylinderData, testsPerMonth, calibrationsPerMonth,
                 instruments, result, error>>

setTestsPerMonth(v) ==
  /\ testsPerMonth' = v
  /\ lastEvent' = "change"
  /\ UNCHANGED <<cylinderData, selectedGas, calibrationsPerMonth,
                 instruments, result, error>>

setCalibrationsPerMonth(v) ==
  /\ calibrationsPerMonth' = v
  /\ lastEvent' = "change"
  /\ UNCHANGED <<cylinderData, selectedGas, testsPerMonth,
                 instruments, result, error>>

setInstruments(v) ==
  /\ instruments' = v
  /\ lastEvent' = "change"
  /\ UNCHANGED <<cylinderData, selectedGas, testsPerMonth,
                 calibrationsPerMonth, result, error>>

(***************************************************************************)
(* Inputs.  A count is typed as its decimal text; the other texts are an   *)
(* empty field and texts that are no decimal integer.                      *)
(***************************************************************************)
MaxCount == 4
MaxTokens == 3
MaxComponents == 2

TextOf(n) ==
  IF n = 0 THEN <<"0">>
  ELSE IF n < 0 THEN <<"-">> \o DecDigits(BigFromInt(-n))
  ELSE DecDigits(BigFromInt(n))

Counts == (-1..MaxCount) \cup {10}
CountTexts == {TextOf(n) : n \in Counts}
OtherTexts == {<<>>, <<"a", "b", "c">>, <<".", "5">>, <<"1", "2", "a", "b", "c">>}
NumberTexts == CountTexts \cup OtherTexts

\* "Unknown Gas (XX)"
UnknownGas ==
  <<"U", "n", "k", "n", "o", "w", "n", " ", "G", "a", "s", " ", "(", "X", "X", ")">>

GasOptions == {Catalog[i].gasType : i \in 1..Len(Catalog)} \cup {<<>>, UnknownGas}

\* the values the interleaved specifications type into the fields
GasEdits == {<<>>, UnknownGas, CarbonMonoxide, Mix4CO2}
FieldEdits == {<<>>, TextOf(0), TextOf(1), <<"a", "b", "c">>}

\* the labels formatGasType is applied to: the two shapes of the data model,
\* built from their parts, and free concatenations of tokens
RECURSIVE Concat(_)
Concat(ss) == IF ss = <<>> THEN <<>> ELSE Head(ss) \o Concat(Tail(ss))

RECURSIVE Join(_, _)
Join(ss, sep) ==
  IF Len(ss) <= 1 THEN Concat(ss) ELSE Head(ss) \o sep \o Join(Tail(ss), sep)

SeqsUpTo(S, n) == UNION {[1..k -> S] : k \in 0..n}

MixCounts == {<<"3">>, <<"1", "0">>, <<"2">> \o In1Sp \o <<"3">>}
ComponentTexts == {<<"O", "2">>, <<" ", "C", "O", " ">>,
                   <<"A">> \o In1Sp \o <<"B">>}
Names == {<<"A">>, <<" ", "A", " ">>, <<>>, <<"A", "(">>, <<"A", ")">>,
          <<"A", " ", "(", "B", ")">>, <<"A", "\n", "B">>, <<"A">> \o In1}
Symbols == {<<"B">>, <<" ", "B", " ">>, <<>>, <<"B", "(">>, <<"B", ")">>,
            <<"(", "B", ")">>}
Tokens == {<<"3">>, <<"0">>, <<"A">>, <<" ">>, <<"(">>, <<")">>, <<",">>, In1}

Shapes ==
  {[kind |-> "mix", head |-> n, items |-> c] :
      n \in MixCounts, c \in SeqsUpTo(ComponentTexts, MaxComponents) \ {<<>>}}
  \cup {[kind |-> "single", head |-> n, items |-> <<y>>] :
      n \in Names, y \in Symbols}
  \cup {[kind |-> "free", head |-> <<>>, items |-> t] :
      t \in SeqsUpTo(Tokens, MaxTokens)}

LabelOf(sh) ==
  IF sh.kind = "mix"
    THEN sh.head \o In1Sp \o <<"(">> \o Join(sh.items, <<",">>) \o <<")">>
  ELSE IF sh.kind = "single"
    THEN sh.head \o <<" ", "(">> \o sh.items[1] \o <<")">>
  ELSE Concat(sh.items)

NoShape == [kind |-> "none", head |-> <<>>, items |-> <<>>]

(***************************************************************************)
(* Spec: the mounted component under any interleaving of field edits and   *)
(* clicks on Calculate.                                                    *)
(***************************************************************************)
Mounted ==
  /\ cylinderData = Catalog
  /\ selectedGas = <<>>
  /\ testsPerMonth = <<>>
  /\ calibrationsPerMonth = <<>>
  /\ instruments = <<>>
  /\ result = Null
  /\ error = ""
  /\ lastEvent = "mount"

FormatIdle == label = <<>> /\ formatted = <<>> /\ shape = NoShape

Init == Mounted /\ FormatIdle /\ recorded = <<>>

Next ==
  \/ \E v \in GasEdits : setSelectedGas(v) /\ UNCHANGED <<formatVars, recorded>>
  \/ \E v \in FieldEdits : setTestsPerMonth(v) /\ UNCHANGED <<formatVars, recorded>>
  \/ \E v \in FieldEdits : setCalibrationsPerMonth(v) /\ UNCHANGED <<formatVars, recorded>>
  \/ \E v \in FieldEdits : setInstruments(v) /\ UNCHANGED <<formatVars, recorded>>
  \/ calculateUsage /\ UNCHANGED <<formatVars, recorded>>

Spec == Init /\ [][Next]_vars

(***************************************************************************)
(* SpecCalc: calculateUsage as a function of the four fields.  The fields  *)
(* hold any of the input texts (typed since the mount) and Calculate is    *)
(* clicked.                                                                *)
(***************************************************************************)
InitCalc ==
  /\ cylinderData = Catalog
  /\ selectedGas \in GasOptions
  /\ testsPerMonth \in NumberTexts
  /\ calibrationsPerMonth \in NumberTexts
  /\ instruments \in NumberTexts
  /\ result = Null
  /\ error = ""
  /\ lastEvent = "change"
  /\ FormatIdle
  /\ recorded = <<>>

NextCalc == calculateUsage /\ UNCHANGED <<formatVars, recorded>>

SpecCalc == InitCalc /\ [][NextCalc]_vars

(***************************************************************************)
(* SpecDet: Spec with a history variable.  One click, chosen freely, is    *)
(* recorded with the fields it read and the slots it left.                 *)
(***************************************************************************)
Fields == <<selectedGas, testsPerMonth, calibrationsPerMonth, instruments>>

DetGasEdits == {<<>>, CarbonMonoxide}
DetFieldEdits == {<<>>, TextOf(1)}

recordClick ==
  /\ recorded = <<>>
  /\ calculateUsage
  /\ recorded' = <<[fields |-> Fields, error |-> error', result |-> result']>>
  /\ UNCHANGED formatVars

NextDet ==
  \/ \E v \in DetGasEdits : setSelectedGas(v) /\ UNCHANGED <<formatVars, recorded>>
  \/ \E v \in DetFieldEdits : setTestsPerMonth(v) /\ UNCHANGED <<formatVars, recorded>>
  \/ \E v \in DetFieldEdits : setCalibrationsPerMonth(v) /\ UNCHANGED <<formatVars, recorded>>
  \/ \E v \in DetFieldEdits : setInstruments(v) /\ UNCHANGED <<formatVars, recorded>>
  \/ calculateUsage /\ UNCHANGED <<formatVars, recorded>>
  \/ recordClick

SpecDet == Init /\ [][NextDet]_vars

(***************************************************************************)
(* SpecFormat: formatGasType applied to a label.                           *)
(***************************************************************************)
InitFormat ==
  /\ Mounted
  /\ recorded = <<>>
  /\ shape \in Shapes
  /\ label = LabelOf(shape)
  /\ formatted = <<>>

callFormatGasType ==
  /\ formatted = <<>>
  /\ formatted' = <<formatGasType(label)>>
  /\ UNCHANGED <<appVars, label, shape, recorded>>

NextFormat == callFormatGasType

SpecFormat == InitFormat /\ [][NextFormat]_vars

(***************************************************************************)
(* Properties.  The table of section 4.1 is written in exact decimals:     *)
(* times in hundredths of a minute, the flow rate in tenths of a litre     *)
(* per minute, so that the formula is computed in exact thousandths.       *)
(***************************************************************************)
Table41 ==
  << [label |-> Mix3CO,         bump |-> 50,  cal |-> 200, flow |-> 5],
     [label |-> Mix3H2S,        bump |-> 50,  cal |-> 200, flow |-> 5],
     [label |-> Mix4H2S,        bump |-> 40,  cal |-> 150, flow |-> 5],
     [label |-> Mix4CO2,        bump |-> 50,  cal |-> 215, flow |-> 5],
     [label |-> Mix5CO2,        bump |-> 50,  cal |-> 215, flow |-> 5],
     [label |-> Mix5SO2,        bump |-> 75,  cal |-> 250, flow |-> 5],
     [label |-> Ammonia,        bump |-> 100, cal |-> 300, flow |-> 5],
     [label |-> CarbonDioxide,  bump |-> 50,  cal |-> 150, flow |-> 5],
     [label |-> CarbonMonoxide, bump |-> 40,  cal |-> 150, flow |-> 5],
     [label |-> Chlorine,       bump |-> 300, cal |-> 600, flow |-> 5] >>

Clicked == lastEvent = "click"

Abs(n) == IF n < 0 THEN -n ELSE n

\* a === b on Numbers (NaN equals nothing, -0 equals +0)
NumEq(a, b) ==
  /\ ~a.nan /\ ~b.nan
  /\ \/ a = b
     \/ a.man = <<>> /\ b.man = <<>>

\* the Number a decimal of c hundredths denotes
CentsNumber(c) == FromDecimal(IF c < 0 THEN 1 ELSE 0, BigFromInt(Abs(c)), 100)

\* the count a decimal text denotes
IntOf(text) == CHOOSE n \in Counts : TextOf(n) = text

CountsTyped ==
  /\ testsPerMonth \in CountTexts
  /\ calibrationsPerMonth \in CountTexts
  /\ instruments \in CountTexts

\* the exact value of the formula, in thousandths of a litre
ExactThousandths ==
  LET row == Table41[CHOOSE i \in 1..Len(Table41) : Table41[i].label = selectedGas]
  IN  ((row.bump * IntOf(testsPerMonth) * row.flow)
       + (row.cal * IntOf(calibrationsPerMonth) * row.flow)) * IntOf(instruments)

\* thousandths rounded to hundredths, halves away from zero
RoundHalfAway(t) == IF t >= 0 THEN (t + 5) \div 10 ELSE -((5 - t) \div 10)

DecimalDigits == {"0", "1", "2", "3", "4", "5", "6", "7", "8", "9"}

\* the text is optional blanks, an optional sign, then at least one decimal digit
StartsWithInteger(text) ==
  \E k \in 1..Len(text) :
     /\ text[k] \in DecimalDigits
     /\ \/ \A j \in 1..(k - 1) : text[j] \in WhiteSpace
        \/ /\ k > 1
           /\ text[k - 1] \in {"+", "-"}
           /\ \A j \in 1..(k - 2) : text[j] \in WhiteSpace

SomeFieldEmpty ==
  \/ selectedGas = <<>>
  \/ testsPerMonth = <<>>
  \/ calibrationsPerMonth = <<>>
  \/ instruments = <<>>

GasUnknown == \A i \in 1..Len(Table41) : Table41[i].label # selectedGas

SomeNumberInvalid ==
  \/ ~StartsWithInteger(testsPerMonth)
  \/ ~StartsWithInteger(calibrationsPerMonth)
  \/ ~StartsWithInteger(instruments)

\* C1: after every invocation of calculateUsage the state holds an error
\* message or a numeric result, and never both.
C1_ErrorXorResult == Clicked => ((error # "") # (result # Null))

\* C2: validation is fail-fast in the order MissingField, UnknownGasType,
\* InvalidNumber; the error left is that of the earliest failing check, and a
\* numeric result is produced if and only if no check fails.
C2_FailFastOrder ==
  Clicked =>
    /\ error = IF SomeFieldEmpty THEN MissingField
               ELSE IF GasUnknown THEN UnknownGasType
               ELSE IF SomeNumberInvalid THEN InvalidNumber
               ELSE ""
    /\ (result # Null) <=> ~(SomeFieldEmpty \/ GasUnknown \/ SomeNumberInvalid)

\* an unknown gas together with a non-numeric count: only the gas is reported
C2_Witness ==
  /\ Clicked
  /\ selectedGas = UnknownGas
  /\ testsPerMonth = <<"a", "b", "c">>
  /\ calibrationsPerMonth = TextOf(1)
  /\ instruments = TextOf(1)
  /\ error = UnknownGasType
  /\ result = Null

\* C3: for every catalog record and every triple of counts that passes
\* validation, zero and negative ones included, the result stored is the value
\* of ((bump * tests * flow) + (cal * calibrations * flow)) * instruments with
\* the constants of the selected record: equal to it when that value is a
\* whole number of hundredths, and one of the two neighbouring hundredths
\* otherwise.
C3_Formula ==
  (Clicked /\ error = "" /\ CountsTyped) =>
    /\ result # Null
    /\ LET t == ExactThousandths
       IN  IF t % 10 = 0 THEN NumEq(result[1], CentsNumber(t \div 10))
           ELSE \/ NumEq(result[1], CentsNumber(t \div 10))
                \/ NumEq(result[1], CentsNumber((t \div 10) + 1))

\* 'Carbon Monoxide (CO)' with 10, 4, 2 gives 10.00
C3_Witness ==
  /\ Clicked
  /\ selectedGas = CarbonMonoxide
  /\ testsPerMonth = TextOf(10)
  /\ calibrationsPerMonth = TextOf(4)
  /\ instruments = TextOf(2)
  /\ error = ""
  /\ result = <<FromInt(10)>>

\* C4: the value stored by a successful calculateUsage is the exact formula
\* value rounded to two decimals, halves away from zero.
C4_HalfAwayFromZero ==
  (Clicked /\ error = "" /\ CountsTyped) =>
    /\ result # Null
    /\ NumEq(result[1], CentsNumber(RoundHalfAway(ExactThousandths)))

\* C5: formatGasType is total: for every label it returns a record and never
\* raises an error.
C5_Total == formatted # <<>> => ~formatted[1].threw

NoParens(text) == \A i \in 1..Len(text) : text[i] \notin {"(", ")"}

\* C7: for every label '<N> in 1 (<c1>,<c2>,...)' formatGasType returns
\* '<N>-in-1 Gas Mixture' and one component per listed component, in order,
\* each trimmed and free of parentheses.
C7_MixtureShape ==
  (shape.kind = "mix" /\ formatted # <<>>) =>
    LET f == formatted[1]
    IN  /\ ~f.threw
        /\ f.displayName = shape.head \o GasMixture
        /\ Len(f.components) = Len(shape.items)
        /\ \A i \in 1..Len(f.components) :
              /\ f.components[i] = Trim(f.components[i])
              /\ NoParens(f.components[i])

NameAndSymbol(f) ==
  /\ ~f.threw
  /\ f.displayName = Trim(shape.head)
  /\ f.components = <<Trim(shape.items[1])>>

\* C8 as stated: for every label '<Name> (<Symbol>)' without ' in 1',
\* whatever Name and Symbol contain, displayName is Name trimmed and components
\* is [Symbol trimmed].
C8_SingleShapeAny ==
  (shape.kind = "single" /\ formatted # <<>> /\ ~includes(label, In1)) =>
    NameAndSymbol(formatted[1])

SingleLine(text) == \A i \in 1..Len(text) : text[i] \notin LineTerminator

\* C8 as amended: for every label '<Name> (<Symbol>)' without ' in 1' in
\* which Name holds no '(', Symbol holds no ')' and neither holds a line
\* terminator, displayName is Name trimmed and components is [Symbol trimmed].
C8_SingleShapePlain ==
  (/\ shape.kind = "single" /\ formatted # <<>> /\ ~includes(label, In1)
   /\ \A i \in 1..Len(shape.head) : shape.head[i] # "("
   /\ \A i \in 1..Len(shape.items[1]) : shape.items[1][i] # ")"
   /\ SingleLine(shape.head) /\ SingleLine(shape.items[1])) =>
    NameAndSymbol(formatted[1])

\* " A  ( B )" gives "A" and ["B"]
C8_Witness ==
  /\ shape.kind = "single"
  /\ shape.head = <<" ", "A", " ">>
  /\ shape.items = <<<<" ", "B", " ">>>>
  /\ formatted = <<Formatted(<<"A">>, <<<<"B">>>>)>>

Positive(x) == ~x.nan /\ x.sign = 0 /\ x.man # <<>>

\* C6: in every reachable state the catalog is the fixed sequence of the 10
\* records of section 4.1, with pairwise distinct gasType keys, strictly
\* positive bumpTimeMin, calTimeMin and flowRate and non-empty components.
C6_CatalogFixed ==
  /\ Len(cylinderData) = 10
  /\ \A i \in 1..Len(cylinderData) :
        LET c == cylinderData[i]
        IN  /\ c.gasType = Table41[i].label
            /\ c.bumpTimeMin = Lit(Table41[i].bump, 100)
            /\ c.calTimeMin = Lit(Table41[i].cal, 100)
            /\ c.flowRate = Lit(Table41[i].flow, 10)
            /\ Positive(c.bumpTimeMin)
            /\ Positive(c.calTimeMin)
            /\ Positive(c.flowRate)
            /\ c.components # <<>>
            /\ \A j \in 1..Len(cylinderData) :
                  j # i => cylinderData[j].gasType # c.gasType

\* the catalog after edits and a successful calculation
C6_Witness ==
  /\ Clicked
  /\ result # Null
  /\ selectedGas = Mix4CO2
  /\ Len(cylinderData) = 10

\* C9: two invocations of calculateUsage with the same four inputs leave the
\* same error message and the same result, whatever preceded them.
C9_Deterministic ==
  (recorded # <<>> /\ Clicked /\ Fields = recorded[1].fields) =>
    /\ error = recorded[1].error
    /\ result = recorded[1].result

\* C10: an invocation that ends in an error leaves the result slot as it was,
\* and no invocation changes the four input fields.
C10_ErrorKeepsResult ==
  [][lastEvent' = "click" =>
       /\ Fields' = Fields
       /\ (error' # "" => result' = result)]_vars

\* an error shown over the number of an earlier successful calculation
C10_Witness ==
  /\ Clicked
  /\ error = MissingField
  /\ result # Null

====
